---- MODULE Spec2Model ----
(***************************************************************************)
(* Verification model of the ARC code-golf evaluation harness              *)
(* (arc_utils/score.py, evaluator.py, loader.py, eval_all.py,              *)
(* eval_decompressed.py, compare_solutions.py).                            *)
(*                                                                         *)
(* Scores are Python floats with at most three decimals; they are kept     *)
(* here as integers in thousandths (0.001 is 1, 1.0 is 1000).              *)
(* Python's None is the empty sequence <<>> and a present value x is       *)
(* <<x>>.  Python values are records [k, n, c, s]: kind, number, the       *)
(* characters of a string, the items of a list.                            *)
(***************************************************************************)
EXTENDS Integers, Sequences, FiniteSets, TLC

\* ------------------------------------------------------------------------
\* Bounds of the model
\* ------------------------------------------------------------------------
MaxPairs == 2
MaxScript == 2
MaxRuns == 2
NegLens == 2
SmallLens == 3
Window == 3

\* a run of an orchestrator covers at most MaxTasks task ids
MaxTasks == 2

\* at most MaxEvals evaluations are made one after the other in one interpreter
MaxEvals == 3

\* ------------------------------------------------------------------------
\* score.py
\* ------------------------------------------------------------------------
FailScore == 1

MaxBase == 2500

score_for_length_strict(file_len_bytes, passed) ==
    IF ~passed THEN FailScore
    ELSE LET base == MaxBase - file_len_bytes
         IN  (IF base > 0 THEN base ELSE 0) * 1000

score_for_length_nofloor(file_len_bytes, passed) ==
    IF ~passed THEN FailScore
    ELSE (MaxBase - file_len_bytes) * 1000

score_for_length_lenfail(file_len_bytes, passed) ==
    IF ~passed THEN (IF file_len_bytes < 0 THEN 0 ELSE FailScore)
    ELSE LET base == MaxBase - file_len_bytes
         IN  (IF base > 1 THEN base ELSE 1) * 1000

score_for_length_flat(file_len_bytes, passed) ==
    IF ~passed THEN FailScore
    ELSE LET base == MaxBase - file_len_bytes
         IN  (IF base > 1 THEN (IF base > 2 THEN base - 1 ELSE base) ELSE 1) * 1000

score_for_length(file_len_bytes, passed) ==
    IF ~passed THEN FailScore
    ELSE LET base == MaxBase - file_len_bytes
         IN  (IF base > 1 THEN base ELSE 1) * 1000

\* ------------------------------------------------------------------------
\* Python values that a solver can return, and the grids of the task data
\* ------------------------------------------------------------------------
None == <<>>

Some(x) == <<x>>

PyInt(i) == [k |-> "int", n |-> i, c |-> <<>>, s |-> <<>>]

\* a float with one decimal digit, kept in tenths: PyFloat(15) is 1.5
PyFloat(t) == [k |-> "float", n |-> t, c |-> <<>>, s |-> <<>>]

PyBool(b) == [k |-> "bool", n |-> IF b THEN 1 ELSE 0, c |-> <<>>, s |-> <<>>]

PyNone == [k |-> "null", n |-> 0, c |-> <<>>, s |-> <<>>]

PyStr(chars) == [k |-> "str", n |-> 0, c |-> chars, s |-> <<>>]

PyList(items) == [k |-> "list", n |-> 0, c |-> <<>>, s |-> items]

\* a dict with no key, or with the one key `key` (items = <<value>>)
PyDict(key, items) == [k |-> "dict", n |-> 0, c |-> key, s |-> items]

\* a value json.dumps cannot serialize (a set, an ndarray, ...)
PyObject == [k |-> "obj", n |-> 0, c |-> <<>>, s |-> <<>>]

Row1(a) == PyList(<<PyInt(a)>>)

Row2(a, b) == PyList(<<PyInt(a), PyInt(b)>>)

G0 == PyList(<<Row1(0)>>)

G12 == PyList(<<Row2(1, 2)>>)

G1_2 == PyList(<<Row1(1), Row1(2)>>)

G10 == PyList(<<Row1(10)>>)

GRagged == PyList(<<Row2(1, 2), Row1(1)>>)

GBool == PyList(<<PyList(<<PyBool(TRUE), PyInt(2)>>)>>)

GFloat == PyList(<<PyList(<<PyFloat(10), PyInt(2)>>)>>)

GHalf == PyList(<<PyList(<<PyFloat(15)>>)>>)

GStr == PyList(<<PyList(<<PyStr(<<"a">>)>>)>>)

GBoolF == PyList(<<PyList(<<PyBool(FALSE)>>)>>)

GNeg == PyList(<<Row1(-1)>>)

GDict == PyDict(<<"a">>, <<PyInt(1)>>)

Grids == {G0, G12, G1_2, G10}

ReturnValues ==
    Grids \cup {GRagged, GBool, GBoolF, GFloat, GHalf, GStr, GNeg, PyNone, GDict,
                PyInt(1), PyObject}

\* ------------------------------------------------------------------------
\* json.dumps / str.replace / re.search / json.loads, on character sequences
\* ------------------------------------------------------------------------
DigitChars == <<"0", "1", "2", "3", "4", "5", "6", "7", "8", "9">>

RECURSIVE NatStr(_)
NatStr(i) == IF i < 10 THEN <<DigitChars[i + 1]>>
             ELSE NatStr(i \div 10) \o <<DigitChars[(i % 10) + 1]>>

IntStr(i) == IF i < 0 THEN <<"-">> \o NatStr(-i) ELSE NatStr(i)

RECURSIVE json_dumps(_)
RECURSIVE JoinDumps(_)
JoinDumps(items) ==
    IF items = <<>> THEN <<>>
    ELSE IF Len(items) = 1 THEN json_dumps(items[1])
    ELSE json_dumps(items[1]) \o <<",", " ">> \o JoinDumps(Tail(items))

json_dumps(v) ==
    CASE v.k = "int"   -> IntStr(v.n)
      [] v.k = "float" -> NatStr(v.n \div 10) \o <<".">> \o NatStr(v.n % 10)
      [] v.k = "bool"  -> IF v.n = 1 THEN <<"t", "r", "u", "e">>
                                     ELSE <<"f", "a", "l", "s", "e">>
      [] v.k = "null"  -> <<"n", "u", "l", "l">>
      [] v.k = "str"   -> <<"\"">> \o v.c \o <<"\"">>
      [] v.k = "list"  -> <<"[">> \o JoinDumps(v.s) \o <<"]">>
      [] v.k = "dict"  -> IF v.s = <<>> THEN <<"{", "}">>
                          ELSE <<"{", "\"">> \o v.c \o <<"\"", ":", " ">>
                               \o json_dumps(v.s[1]) \o <<"}">>

Serializable(v) ==
    LET RECURSIVE Ok(_)
        Ok(x) == /\ x.k # "obj"
                 /\ \A j \in 1..Len(x.s) : Ok(x.s[j])
    IN  Ok(v)

StartsWith(str, old) ==
    /\ Len(str) >= Len(old)
    /\ SubSeq(str, 1, Len(old)) = old

RECURSIVE Replace(_, _, _)
Replace(str, old, new) ==
    IF str = <<>> THEN <<>>
    ELSE IF StartsWith(str, old)
         THEN new \o Replace(SubSeq(str, Len(old) + 1, Len(str)), old, new)
         ELSE <<Head(str)>> \o Replace(Tail(str), old, new)

\* the characters \s matches that JSON text can hold
WhiteChars == {" ", "\t", "\n", "\r"}

SafeChars == {DigitChars[j] : j \in 1..10} \cup {",", "[", "]", "."} \cup WhiteChars

\* the pattern without \s
_UNSAFE_CHARS_RE_nows(dumped) == \E j \in 1..Len(dumped) : dumped[j] \notin SafeChars \ WhiteChars

\* the pattern with a minus sign let through
_UNSAFE_CHARS_RE_minus(dumped) == \E j \in 1..Len(dumped) : dumped[j] \notin SafeChars \cup {"-"}

_UNSAFE_CHARS_RE(dumped) == \E j \in 1..Len(dumped) : dumped[j] \notin SafeChars

DigitVal(ch) == CHOOSE d \in 0..9 : DigitChars[d + 1] = ch

IsDigit(ch) == \E d \in 0..9 : DigitChars[d + 1] = ch

RECURSIVE SkipWs(_)
SkipWs(str) == IF str # <<>> /\ Head(str) \in WhiteChars THEN SkipWs(Tail(str)) ELSE str

RECURSIVE DigitRun(_)
DigitRun(str) == IF str # <<>> /\ IsDigit(Head(str)) THEN 1 + DigitRun(Tail(str)) ELSE 0

RECURSIVE StrNat(_)
StrNat(ds) == IF ds = <<>> THEN 0 ELSE StrNat(SubSeq(ds, 1, Len(ds) - 1)) * 10 + DigitVal(ds[Len(ds)])

Drop(str, cnt) == SubSeq(str, cnt + 1, Len(str))

ParseFail == [ok |-> FALSE, val |-> PyNone, rest |-> <<>>]

\* a JSON number made of digits and at most one period
ParseNat(str) ==
    LET d == DigitRun(str)
        ip == SubSeq(str, 1, d)
        r1 == Drop(str, d)
    IN  IF d = 0 \/ (d > 1 /\ str[1] = "0") THEN ParseFail
        ELSE IF r1 # <<>> /\ Head(r1) = "."
             THEN LET f == DigitRun(Tail(r1))
                  IN  IF f # 1 THEN ParseFail
                      ELSE [ok |-> TRUE,
                            val |-> PyFloat(StrNat(ip) * 10 + DigitVal(r1[2])),
                            rest |-> Drop(r1, 2)]
             ELSE [ok |-> TRUE, val |-> PyInt(StrNat(ip)), rest |-> r1]

\* a JSON number: an optional minus sign and the digits
ParseNumber(str) ==
    IF str # <<>> /\ Head(str) = "-"
    THEN LET e == ParseNat(Tail(str))
         IN  [ok |-> e.ok, val |-> [e.val EXCEPT !.n = 0 - e.val.n], rest |-> e.rest]
    ELSE ParseNat(str)

RECURSIVE ParseValue(_)
RECURSIVE ParseItems(_, _)
\* the items of a list after "[" or after a ","; acc holds those already read
ParseItems(str, acc) ==
    LET e == ParseValue(str)
        r == SkipWs(e.rest)
    IN  IF ~e.ok \/ r = <<>> THEN ParseFail
        ELSE IF Head(r) = "," THEN ParseItems(Tail(r), Append(acc, e.val))
        ELSE IF Head(r) = "]" THEN [ok |-> TRUE, val |-> PyList(Append(acc, e.val)), rest |-> Tail(r)]
        ELSE ParseFail

ParseValue(str0) ==
    LET str == SkipWs(str0)
    IN  IF str = <<>> THEN ParseFail
        ELSE IF Head(str) = "["
             THEN LET r == SkipWs(Tail(str))
                  IN  IF r # <<>> /\ Head(r) = "]"
                      THEN [ok |-> TRUE, val |-> PyList(<<>>), rest |-> Tail(r)]
                      ELSE ParseItems(Tail(str), <<>>)
        ELSE ParseNumber(str)

\* json.loads: <<value>>, or <<>> when it raises JSONDecodeError
json_loads(str) ==
    LET e == ParseValue(str)
    IN  IF e.ok /\ SkipWs(e.rest) = <<>> THEN Some(e.val) ELSE None

\* ------------------------------------------------------------------------
\* numpy: np.array(x, dtype=object).shape, ==, .all()
\* ------------------------------------------------------------------------
RECURSIVE CommonPrefix(_, _)
CommonPrefix(a, b) ==
    IF a # <<>> /\ b # <<>> /\ Head(a) = Head(b)
    THEN <<Head(a)>> \o CommonPrefix(Tail(a), Tail(b))
    ELSE <<>>

RECURSIVE np_shape(_)
RECURSIVE ItemsShape(_)
\* the dimensions shared by every item of a list (ragged items stay objects)
ItemsShape(items) ==
    IF Len(items) = 1 THEN np_shape(items[1])
    ELSE CommonPrefix(np_shape(items[1]), ItemsShape(Tail(items)))

np_shape(v) ==
    IF v.k # "list" THEN <<>>
    ELSE IF v.s = <<>> THEN <<0>>
    ELSE <<Len(v.s)>> \o ItemsShape(v.s)

IsNumber(v) == v.k \in {"int", "float", "bool"}

Tenths(v) == IF v.k = "float" THEN v.n ELSE v.n * 10

\* Python's == on numbers and lists
RECURSIVE PyEq(_, _)
PyEq(a, b) ==
    IF IsNumber(a) /\ IsNumber(b) THEN Tenths(a) = Tenths(b)
    ELSE IF a.k = "list" /\ b.k = "list"
         THEN /\ Len(a.s) = Len(b.s)
              /\ \A j \in 1..Len(a.s) : PyEq(a.s[j], b.s[j])
    ELSE a = b

\* (user_arr == want_arr).all() for two arrays of the same shape with d dimensions
RECURSIVE np_all_equal(_, _, _)
np_all_equal(u, w, d) ==
    IF d = 0 THEN PyEq(u, w)
    ELSE \A j \in 1..Len(u.s) : np_all_equal(u.s[j], w.s[j], d - 1)

\* the numbers of an array in row-major order
RECURSIVE Ravel(_)
RECURSIVE RavelItems(_)
RavelItems(items) == IF items = <<>> THEN <<>> ELSE Ravel(items[1]) \o RavelItems(Tail(items))

Ravel(v) == IF v.k = "list" THEN RavelItems(v.s) ELSE <<Tenths(v)>>

\* a comparison of the cells that leaves the shape out
arrays_match_flat(user_arr, want_arr) == Ravel(user_arr) = Ravel(want_arr)

arrays_match(user_arr, want_arr) ==
    /\ np_shape(user_arr) = np_shape(want_arr)
    /\ np_all_equal(user_arr, want_arr, Len(np_shape(want_arr)))

\* ------------------------------------------------------------------------
\* loader.py
\* ------------------------------------------------------------------------
Pair(in, out) == [input |-> in, output |-> out]

_TASK_ZERO == [train |-> <<Pair(G0, G0)>>, test |-> <<>>, arcgen |-> <<>>]

\* f"{tid:03d}"
_task_id_str(tid) ==
    LET d == NatStr(tid)
    IN  IF Len(d) = 1 THEN <<"0", "0">> \o d ELSE IF Len(d) = 2 THEN <<"0">> \o d ELSE d


\* ------------------------------------------------------------------------
\* The state
\* ------------------------------------------------------------------------
VARIABLES
    sc_in,               \* score.py: the arguments of two calls of score_for_length
    sc_out,              \* score.py: their results, None before the calls
    entry,               \* the function that is running
    task_id,             \* its task id
    store,               \* the task JSON in storage for that id, None if absent
    src_dir,             \* the folder of the solver file, a sequence of path components
    artifact,            \* the solver file src_dir/taskNNN.py, None if absent
    sys_modules,         \* sys.modules: the loaded solver modules, by name
    program,             \* the solver p obtained from the file, "none" before
    script,              \* what a scripted solver does on its 1st, 2nd, ... call
    pc,                  \* position in the running function
    pairs,               \* _verify_split: its argument
    idx,                 \* _verify_split: pairs of the loop already processed
    right,               \* _verify_split
    wrong,               \* _verify_split
    first_wrong_detail,  \* _verify_split
    err_tb,              \* _verify_split
    calls,               \* log of solver invocations <<split, pair number>>
    log,                 \* per invocation: the grid the solver received and the verdict
    split_ret,           \* what a direct call of _verify_split returned, None before
    agi_ret,             \* caller: what it keeps of the ARC-AGI split, None before
    gen_ret,             \* caller: what it keeps of the ARC-GEN split, None before
    ret,                 \* evaluate_task: the returned triple, None before
    meta,                \* _eval_one: the returned record, None before
    escaped,             \* name of the exception that left the function, "" if none
    task_zero,           \* loader.py: the object _TASK_ZERO that load_task(0) returns
    run,                 \* an orchestrator: its arguments, loop position, rows and totals
    world,               \* the solver files and the task storage of repeated evaluations
    history              \* the records of the evaluations of (folder, task) made so far

vars == <<sc_in, sc_out, entry, task_id, store, src_dir, artifact, sys_modules, program,
          script, pc, pairs, idx, right, wrong, first_wrong_detail, err_tb, calls, log, split_ret, agi_ret,
          gen_ret, ret, meta, escaped, task_zero, run, world, history>>

scoreVars == <<sc_in, sc_out>>

inputVars == <<entry, task_id, store, src_dir, artifact, script>>

splitVars == <<pairs, idx, right, wrong, first_wrong_detail, err_tb>>

evalVars == <<entry, task_id, store, src_dir, artifact, sys_modules, program, script, pc,
              pairs, idx, right, wrong,
              first_wrong_detail, err_tb, calls, log, split_ret, agi_ret, gen_ret, ret,
              meta, escaped, task_zero, run, world, history>>

runVars == <<run, world, history>>

\* load_task that looks every task id up in storage, 0 included
load_task_lookup(tid, st) == st

\* the JSON document of the task, or None for FileNotFoundError; st is what
\* the candidate paths hold for a non-zero task id. Task 0 is the module-level
\* object itself, not a copy of it
load_task(tid, st) == IF tid = 0 THEN Some(task_zero) ELSE st

\* ------------------------------------------------------------------------
\* evaluator.py: _run_and_sanitize
\* ------------------------------------------------------------------------
\* what one call program(copy.deepcopy(grid_in)) does: return a value, raise an
\* Exception, or raise a BaseException that is no Exception (SystemExit,
\* KeyboardInterrupt)
Returns(v) == [t |-> "ret", val |-> v]

RaisesException == [t |-> "exc", val |-> PyNone]

RaisesBaseException == [t |-> "base", val |-> PyNone]

\* the solver writes 9 into cell [0][0] of its argument, in place, and returns
\* the argument
MutatesArgument == [t |-> "mut", val |-> PyNone]

\* the solver writes 9 into cell [0][0] of its argument and raises an Exception
MutatesAndRaises == [t |-> "mutx", val |-> PyNone]

\* the solver returns a copy of its argument and then writes 9 into cell [0][0]
\* of the argument
ReturnsAndMutates == [t |-> "retmut", val |-> PyNone]

Outcomes == {Returns(v) : v \in ReturnValues} \cup {RaisesException, RaisesBaseException}

ProgramKinds == {"deepcopy", "raiser", "any", "mutator"}

\* g after g[0][0] = 9
Mutate(g) ==
    [g EXCEPT !.s = <<[g.s[1] EXCEPT !.s = <<PyInt(9)>> \o Tail(g.s[1].s)]>> \o Tail(g.s)]

\* a copy that is the object itself: what the solver writes lands in the original
copy_deepcopy_alias(x) == [val |-> x, shared |-> TRUE]

\* copy.deepcopy(x): a new object equal to x that shares nothing with it
copy_deepcopy(x) == [val |-> x, shared |-> FALSE]

\* a solver of any behaviour, one outcome of each class: the grid it received,
\* two other grids, a ragged list, a value that fails sanitization, an Exception, a
\* BaseException
AnyOutcomes(grid_in) ==
    {Returns(grid_in), Returns(G1_2), Returns(G10), Returns(GRagged), Returns(PyNone),
     RaisesException, RaisesBaseException}

\* the outcomes of the nth call of a solver, made on (a deep copy of) grid_in
ProgramCall(prog, grid_in, nth) ==
    CASE prog = "deepcopy" -> {Returns(grid_in)}
      [] prog = "raiser"   -> {RaisesException, RaisesBaseException}
      [] prog = "any"      -> AnyOutcomes(grid_in)
      [] prog = "mutator"  -> {MutatesArgument, MutatesAndRaises}
      [] prog = "scribbler" -> {ReturnsAndMutates}
      [] prog = "script"   -> {script[nth]}

\* what the call returns or raises, arg being the object the solver received
CallResult(raw, arg) ==
    CASE raw.t = "mut"  -> Returns(Mutate(arg.val))
      [] raw.t = "mutx" -> RaisesException
      [] raw.t = "retmut" -> Returns(arg.val)
      [] OTHER          -> raw

\* the example pair after the call
PairAfter(ex, raw, arg) ==
    IF raw.t \in {"mut", "mutx", "retmut"} /\ arg.shared THEN [ex EXCEPT !.input = Mutate(ex.input)] ELSE ex

Sanitized(arr) == [t |-> "ok", name |-> "", arr |-> arr]

Raised(kind, name) == [t |-> kind, name |-> name, arr |-> PyNone]

TrueChars == <<"t", "r", "u", "e">>

FalseChars == <<"f", "a", "l", "s", "e">>

\* dumped without the two replacements
Dumped_keepbools(result) == json_dumps(result)

\* dumped, as _run_and_sanitize computes it from a serializable result
Dumped(result) == Replace(Replace(json_dumps(result), TrueChars, <<"1">>), FalseChars, <<"0">>)

_run_and_sanitize(outcome) ==
    IF outcome.t = "exc" THEN Raised("exc", "SolverError")
    ELSE IF outcome.t = "base" THEN Raised("base", "SystemExit")
    ELSE IF ~Serializable(outcome.val) THEN Raised("exc", "TypeError")
    ELSE LET dumped == Dumped(outcome.val)
             parsed == json_loads(dumped)
         IN  IF _UNSAFE_CHARS_RE(dumped) THEN Raised("exc", "ValueError")
             ELSE IF parsed = None THEN Raised("exc", "JSONDecodeError")
             ELSE Sanitized(parsed[1])

\* ------------------------------------------------------------------------
\* Solver folders and the names under which the solver modules are registered
\* ------------------------------------------------------------------------
\* folders are sequences of path components, a component is a sequence of
\* characters: submission, decompressed_submission, a/submission, b/submission
SubmissionChars == <<"s", "u", "b">>

DecompressedChars == <<"d", "e", "c", "_", "s", "u", "b">>

SUBMISSION_DIR == <<SubmissionChars>>

DEFAULT_SRC == <<DecompressedChars>>

SrcDirs == {SUBMISSION_DIR, DEFAULT_SRC, <<<<"a">>, SubmissionChars>>, <<<<"b">>, SubmissionChars>>}

\* os.path.basename of a path with no trailing separator
basename(path) == path[Len(path)]

TaskChars == <<"t", "a", "s", "k">>

Loaders == {"evaluator", "compare_solutions", "eval_decompressed"}

\* mod_name of _import_solver and of the two _import_solver_from
mod_name(loader, dir, tid) ==
    CASE loader = "evaluator" -> TaskChars \o _task_id_str(tid)
      [] loader = "compare_solutions" ->
             <<"c", "m", "p", "_">> \o basename(dir) \o <<"_">> \o _task_id_str(tid)
      [] loader = "eval_decompressed" ->
             TaskChars \o _task_id_str(tid)
             \o <<"_", "d", "e", "c", "o", "m", "p", "r", "e", "s", "s", "e", "d">>

\* sys.modules[name] = the module made from dir/task<tid>.py
Register(registry, name, dir, tid) ==
    {m \in registry : m.name # name} \cup {[name |-> name, dir |-> dir, tid |-> tid]}

LoaderOf(e) == IF e \in {"evaluate_task", "eval_all"} THEN "evaluator" ELSE e

\* the folder an entry point reads its solver from
DirOf(e) == IF e = "eval_decompressed" THEN DEFAULT_SRC ELSE SUBMISSION_DIR

\* ------------------------------------------------------------------------
\* Input spaces
\* ------------------------------------------------------------------------
ByteLens ==
    ((0 - NegLens)..SmallLens) \cup {100, 3000}
    \cup ((MaxBase - Window)..(MaxBase + Window))

PairSet == {Pair(G0, G0), Pair(G12, G12), Pair(G12, G1_2)}

\* the pairs of a direct call of _verify_split
VerifyPairs == {Pair(G12, G12), Pair(G12, G1_2), Pair(G1_2, G1_2)}

PairSeqs(max) == UNION {[1..m -> PairSet] : m \in 0..max}

\* the task documents with at most MaxPairs example pairs in all
Tasks ==
    {t \in [train : PairSeqs(MaxPairs), test : PairSeqs(MaxPairs), arcgen : PairSeqs(MaxPairs)] :
        Len(t.train) + Len(t.test) + Len(t.arcgen) <= MaxPairs}

ArtifactLens == {100, 3000}

LoadKinds == {"ok", "raises", "exits", "no_p", "not_callable"}

\* a solver file: its size, what executing it does, and the p it defines
Artifacts ==
    {a \in [bytes : ArtifactLens, load : LoadKinds, program : ProgramKinds] :
        a.load # "ok" => a.program = "deepcopy"}

\* the orchestrators: evaluate_all of eval_all.py and of eval_decompressed.py,
\* evaluate_folders of compare_solutions.py
Orchestrators == {"eval_all", "eval_decompressed", "compare_solutions"}

FolderA == <<<<"a">>, SubmissionChars>>

FolderB == <<<<"b">>, SubmissionChars>>

\* the folder lists of evaluate_folders: no folder, one, two
FolderLists == {<<>>, <<FolderA>>, <<FolderA, FolderB>>}

\* the first task id of a run
FirstIds == {0, 1}

TaskOf(pair) == [train |-> <<pair>>, test |-> <<>>, arcgen |-> <<>>]

\* what storage holds for a task id of a run: nothing, a task the identity
\* solves, a task it does not solve
RunStores == {None, Some(TaskOf(Pair(G12, G12))), Some(TaskOf(Pair(G12, G1_2)))}

\* the solver files of a run: absent, an identity of 100 or of 3000 bytes, a
\* file whose execution raises an Exception, one whose execution exits
RunArtifacts ==
    {None}
    \cup {Some([bytes |-> b, load |-> "ok", program |-> "deepcopy"]) : b \in ArtifactLens}
    \cup {Some([bytes |-> 100, load |-> k, program |-> "deepcopy"]) : k \in {"raises", "exits"}}

Entries == {"evaluate_task", "eval_all", "eval_decompressed", "compare_solutions"}

TaskIds == {0, 1}

\* ------------------------------------------------------------------------
\* evaluator.py: _import_solver, and score.py: get_file_bytes
\* ------------------------------------------------------------------------
get_file_bytes(art) == art[1].bytes

Imported(prog) == [t |-> "ok", name |-> "", program |-> prog]

ImportFails(kind, name) == [t |-> kind, name |-> name, program |-> "none"]

_import_solver(art) ==
    IF art = None THEN ImportFails("exc", "FileNotFoundError")
    ELSE CASE art[1].load = "raises"       -> ImportFails("exc", "SolverError")
           [] art[1].load = "exits"        -> ImportFails("base", "SystemExit")
           [] art[1].load = "no_p"         -> ImportFails("exc", "AttributeError")
           [] art[1].load = "not_callable" -> ImportFails("exc", "TypeError")
           [] art[1].load = "ok"           -> Imported(art[1].program)

\* ------------------------------------------------------------------------
\* evaluator.py: _verify_split, one pair of the loop at a time
\* ------------------------------------------------------------------------
NoTrace == <<>>

\* traceback.format_exc() of the exception caught at pair number at
Traceback(name, at) == <<name, at>>

Detail(ex, actual) == [input |-> ex.input, expected |-> ex.output, actual |-> actual]

Locals(r, w, d, tb) == [right |-> r, wrong |-> w, first_wrong_detail |-> d, err_tb |-> tb]

\* the loop body with an except branch that does not count the pair
verify_pair_swallow(acc, ex, at, res) ==
    IF res.t = "ok"
    THEN IF arrays_match(res.arr, ex.output)
         THEN Locals(acc.right + 1, acc.wrong, acc.first_wrong_detail, acc.err_tb)
         ELSE Locals(acc.right, acc.wrong + 1,
                     IF acc.first_wrong_detail = None
                     THEN Some(Detail(ex, Some(res.arr)))
                     ELSE acc.first_wrong_detail,
                     acc.err_tb)
    ELSE Locals(acc.right, acc.wrong,
                IF acc.first_wrong_detail = None
                THEN Some(Detail(ex, None))
                ELSE acc.first_wrong_detail,
                IF acc.err_tb = NoTrace THEN Traceback(res.name, at) ELSE acc.err_tb)

\* the loop body with an except branch that records the trace only
verify_pair_nodetail(acc, ex, at, res) ==
    IF res.t = "ok"
    THEN IF arrays_match(res.arr, ex.output)
         THEN Locals(acc.right + 1, acc.wrong, acc.first_wrong_detail, acc.err_tb)
         ELSE Locals(acc.right, acc.wrong + 1,
                     IF acc.first_wrong_detail = None
                     THEN Some(Detail(ex, Some(res.arr)))
                     ELSE acc.first_wrong_detail,
                     acc.err_tb)
    ELSE Locals(acc.right, acc.wrong + 1, acc.first_wrong_detail,
                IF acc.err_tb = NoTrace THEN Traceback(res.name, at) ELSE acc.err_tb)

\* the loop body keeping the latest failure instead of the first
verify_pair_last(acc, ex, at, res) ==
    IF res.t = "ok"
    THEN IF arrays_match(res.arr, ex.output)
         THEN Locals(acc.right + 1, acc.wrong, acc.first_wrong_detail, acc.err_tb)
         ELSE Locals(acc.right, acc.wrong + 1, Some(Detail(ex, Some(res.arr))), acc.err_tb)
    ELSE Locals(acc.right, acc.wrong + 1, Some(Detail(ex, None)), Traceback(res.name, at))

\* the body of the for loop for pair ex (number at), res being what
\* _run_and_sanitize did: its normal result or the Exception it raised
verify_pair(acc, ex, at, res) ==
    IF res.t = "ok"
    THEN IF arrays_match(res.arr, ex.output)
         THEN Locals(acc.right + 1, acc.wrong, acc.first_wrong_detail, acc.err_tb)
         ELSE Locals(acc.right, acc.wrong + 1,
                     IF acc.first_wrong_detail = None
                     THEN Some(Detail(ex, Some(res.arr)))
                     ELSE acc.first_wrong_detail,
                     acc.err_tb)
    ELSE Locals(acc.right, acc.wrong + 1,
                IF acc.first_wrong_detail = None
                THEN Some(Detail(ex, None))
                ELSE acc.first_wrong_detail,
                IF acc.err_tb = NoTrace THEN Traceback(res.name, at) ELSE acc.err_tb)

\* `except Exception`: what the handler of the try block catches
Caught(res) == res.t # "base"

\* the branch of the loop body that pair ex took
Verdict(res, ex) ==
    IF res.t = "ok" THEN (IF arrays_match(res.arr, ex.output) THEN "correct" ELSE "incorrect")
    ELSE IF Caught(res) THEN "error" ELSE "escaped"

\* what _verify_split returns
SplitResult == Locals(right, wrong, first_wrong_detail, err_tb)

\* what the callers keep of it: right, wrong and the traceback (the detail is
\* read by the debug printing of evaluate_task only)
Kept(res) == [right |-> res.right, wrong |-> res.wrong, err_tb |-> res.err_tb]

TaskJson == load_task(task_id, store)[1]

agi_pairs == TaskJson.train \o TaskJson.test

gen_pairs == TaskJson.arcgen

\* passed_all that asks for at least one passing pair
passed_all_nonempty(agi, gen) == agi.wrong = 0 /\ gen.wrong = 0 /\ agi.right + gen.right > 0

\* passed_all that looks at the ARC-AGI split only
passed_all_agi_only(agi, gen) == agi.wrong = 0

passed_all(agi, gen) == agi.wrong = 0 /\ gen.wrong = 0

\* ------------------------------------------------------------------------
\* Initial states
\* ------------------------------------------------------------------------
IdleScore ==
    /\ sc_in = [b1 |-> 0, p1 |-> FALSE, b2 |-> 0, p2 |-> FALSE]
    /\ sc_out = None

\* no orchestrator is running and no evaluation has been recorded
IdleRun ==
    /\ run = None
    /\ world = None
    /\ history = <<>>

FreshSplit ==
    /\ idx = 0
    /\ right = 0
    /\ wrong = 0
    /\ first_wrong_detail = None
    /\ err_tb = NoTrace

FreshEval ==
    /\ FreshSplit
    /\ calls = <<>>
    /\ log = <<>>
    /\ split_ret = None
    /\ agi_ret = None
    /\ gen_ret = None
    /\ ret = None
    /\ meta = None
    /\ escaped = ""
    /\ task_zero = _TASK_ZERO

\* an entry point is called for a task id, with some task storage and some
\* solver file
Init ==
    /\ IdleScore
    /\ IdleRun
    /\ entry \in Entries
    /\ task_id \in TaskIds
    /\ store \in {None} \cup {Some(t) : t \in Tasks}
    /\ task_id = 0 => store = None
    /\ src_dir = DirOf(entry)
    /\ artifact \in {None} \cup {Some(a) : a \in Artifacts}
    /\ sys_modules = {}
    /\ program = "none"
    /\ script = <<>>
    /\ pc = "start"
    /\ pairs = <<>>
    /\ FreshEval

\* _verify_split(program, pairs) is called with a solver whose behaviour on
\* each call is laid down in script
InitVerify ==
    /\ IdleScore
    /\ IdleRun
    /\ entry = "_verify_split"
    /\ task_id = 0
    /\ store = None
    /\ src_dir = SUBMISSION_DIR
    /\ artifact = None
    /\ sys_modules = {}
    /\ program = "script"
    /\ \E m \in 0..MaxScript :
          /\ pairs \in [1..m -> VerifyPairs]
          /\ script \in [1..m -> Outcomes]
    /\ pc = "split"
    /\ FreshEval

\* _verify_split(program, pairs) is called, and called again, on the same pair
\* objects (as for the built-in task 0, which load_task hands out on every call)
InitRepeat ==
    /\ IdleScore
    /\ IdleRun
    /\ entry = "_verify_split"
    /\ task_id = 0
    /\ store = None
    /\ src_dir = SUBMISSION_DIR
    /\ artifact = None
    /\ sys_modules = {}
    /\ program \in {"mutator", "deepcopy"}
    /\ script = <<>>
    /\ pairs \in UNION {[1..m -> VerifyPairs \cup PairSet] : m \in 0..MaxScript}
    /\ pc = "split"
    /\ FreshEval

\* an interpreter in which no solver has been loaded yet
InitLoad ==
    /\ IdleScore
    /\ IdleRun
    /\ entry = "evaluator"
    /\ task_id = 0
    /\ store = None
    /\ src_dir = SUBMISSION_DIR
    /\ artifact = None
    /\ sys_modules = {}
    /\ program = "none"
    /\ script = <<>>
    /\ pc = "load"
    /\ pairs = <<>>
    /\ FreshEval

\* score_for_length is called twice
InitScore ==
    /\ sc_in \in [b1 : ByteLens, p1 : BOOLEAN, b2 : ByteLens, p2 : BOOLEAN]
    /\ sc_out = None
    /\ IdleRun
    /\ entry = "score_for_length"
    /\ task_id = 0
    /\ store = None
    /\ src_dir = SUBMISSION_DIR
    /\ artifact = None
    /\ sys_modules = {}
    /\ program = "none"
    /\ script = <<>>
    /\ pc = "idle"
    /\ pairs = <<>>
    /\ FreshEval

\* ------------------------------------------------------------------------
\* Actions
\* ------------------------------------------------------------------------
\* two calls of score_for_length
ScoreCalls ==
    /\ sc_out = None
    /\ sc_out' = Some([s1 |-> score_for_length(sc_in.b1, sc_in.p1),
                       s2 |-> score_for_length(sc_in.b2, sc_in.p2)])
    /\ UNCHANGED <<sc_in, evalVars>>

Escape(name) ==
    /\ pc' = "raised"
    /\ escaped' = name

\* enter _verify_split(program, ps)
EnterSplit(at, ps) ==
    /\ pc' = at
    /\ pairs' = ps
    /\ idx' = 0
    /\ right' = 0
    /\ wrong' = 0
    /\ first_wrong_detail' = None
    /\ err_tb' = NoTrace

\* sys.modules once the entry point has got to its import of the solver file:
\* the name is bound before the file is executed, and only if the file exists
AfterImport ==
    IF load_task(task_id, store) # None /\ artifact # None
    THEN Register(sys_modules, mod_name(LoaderOf(entry), src_dir, task_id), src_dir, task_id)
    ELSE sys_modules

\* evaluate_task(task_id, visual_debug=False) up to the first _verify_split
StartEvaluateTask ==
    /\ pc = "start"
    /\ entry = "evaluate_task"
    /\ LET task_json == load_task(task_id, store)
           imp == _import_solver(artifact)
       IN  IF task_json = None
           THEN Escape("FileNotFoundError") /\ UNCHANGED <<splitVars, program>>
           ELSE IF imp.t # "ok"
           THEN Escape(imp.name) /\ UNCHANGED <<splitVars, program>>
           ELSE /\ program' = imp.program
                /\ EnterSplit("agi", agi_pairs)
                /\ UNCHANGED escaped
    /\ sys_modules' = AfterImport
    /\ UNCHANGED <<scoreVars, runVars, task_zero, inputVars, calls, log, split_ret, agi_ret, gen_ret, ret, meta>>

Meta(exists, nbytes, score, passed, agi, gen, error) ==
    [exists |-> exists, bytes |-> nbytes, score |-> score, passed |-> passed,
     arc_agi |-> agi, arc_gen |-> gen, error |-> error]

Counts(p, f) == [pass |-> p, fail |-> f]

\* str(e) of an exception caught by _eval_one
ErrorText(name) == <<name, 0>>

\* eval_all._eval_one(task_id, file_exists) up to the first _verify_split
StartEvalOne ==
    /\ pc = "start"
    /\ entry = "eval_all"
    /\ LET file_exists == artifact # None
           tjson == load_task(task_id, store)
           imp == _import_solver(artifact)
           dflt(error) == Meta(file_exists, 0, FailScore, FALSE,
                               Counts(0, Len(agi_pairs)), Counts(0, Len(gen_pairs)), error)
       IN  IF tjson = None
           THEN Escape("FileNotFoundError") /\ UNCHANGED <<splitVars, program, meta>>
           ELSE IF ~file_exists
           THEN /\ meta' = Some(dflt(NoTrace))
                /\ pc' = "done"
                /\ UNCHANGED <<splitVars, program, escaped>>
           ELSE IF imp.t = "exc"
           THEN /\ meta' = Some(dflt(ErrorText(imp.name)))
                /\ pc' = "done"
                /\ UNCHANGED <<splitVars, program, escaped>>
           ELSE IF imp.t = "base"
           THEN Escape(imp.name) /\ UNCHANGED <<splitVars, program, meta>>
           ELSE /\ program' = imp.program
                /\ EnterSplit("agi", agi_pairs)
                /\ UNCHANGED <<escaped, meta>>
    /\ sys_modules' = AfterImport
    /\ UNCHANGED <<scoreVars, runVars, task_zero, inputVars, calls, log, split_ret, agi_ret, gen_ret, ret>>

\* eval_decompressed._eval_one(src_dir, task_id, file_exists) up to the first
\* _verify_split
StartEvalOneDecompressed ==
    /\ pc = "start"
    /\ entry = "eval_decompressed"
    /\ LET file_exists == artifact # None
           tjson == load_task(task_id, store)
           imp == _import_solver(artifact)
           dflt(error) == Meta(file_exists, 0, FailScore, FALSE,
                               Counts(0, Len(agi_pairs)), Counts(0, Len(gen_pairs)), error)
       IN  IF tjson = None
           THEN Escape("FileNotFoundError") /\ UNCHANGED <<splitVars, program, meta>>
           ELSE IF ~file_exists
           THEN /\ meta' = Some(dflt(NoTrace))
                /\ pc' = "done"
                /\ UNCHANGED <<splitVars, program, escaped>>
           ELSE IF imp.t = "exc"
           THEN /\ meta' = Some(dflt(ErrorText(imp.name)))
                /\ pc' = "done"
                /\ UNCHANGED <<splitVars, program, escaped>>
           ELSE IF imp.t = "base"
           THEN Escape(imp.name) /\ UNCHANGED <<splitVars, program, meta>>
           ELSE /\ program' = imp.program
                /\ EnterSplit("agi", agi_pairs)
                /\ UNCHANGED <<escaped, meta>>
    /\ sys_modules' = AfterImport
    /\ UNCHANGED <<scoreVars, runVars, task_zero, inputVars, calls, log, split_ret, agi_ret, gen_ret, ret>>

\* compare_solutions._eval_one(src_dir, task_id) up to the first _verify_split
StartEvalOneCompare ==
    /\ pc = "start"
    /\ entry = "compare_solutions"
    /\ LET exists == artifact # None
           tjson == load_task(task_id, store)
           imp == _import_solver(artifact)
           dflt(error) == Meta(exists, 0, FailScore, FALSE, Counts(0, 0), Counts(0, 0), error)
       IN  IF ~exists
           THEN /\ meta' = Some(dflt(NoTrace))
                /\ pc' = "done"
                /\ UNCHANGED <<splitVars, program, escaped>>
           ELSE IF tjson = None
           THEN Escape("FileNotFoundError") /\ UNCHANGED <<splitVars, program, meta>>
           ELSE IF imp.t = "exc"
           THEN /\ meta' = Some(dflt(ErrorText(imp.name)))
                /\ pc' = "done"
                /\ UNCHANGED <<splitVars, program, escaped>>
           ELSE IF imp.t = "base"
           THEN Escape(imp.name) /\ UNCHANGED <<splitVars, program, meta>>
           ELSE /\ program' = imp.program
                /\ EnterSplit("agi", agi_pairs)
                /\ UNCHANGED <<escaped, meta>>
    /\ sys_modules' = AfterImport
    /\ UNCHANGED <<scoreVars, runVars, task_zero, inputVars, calls, log, split_ret, agi_ret, gen_ret, ret>>

\* the pair dicts of task 0 are those of _TASK_ZERO: the task document once
\* pair at of the split holds ex
StoreBack(tz, split, at, ex) ==
    IF split = "gen" THEN [tz EXCEPT !.arcgen[at] = ex]
    ELSE IF at <= Len(tz.train) THEN [tz EXCEPT !.train[at] = ex]
    ELSE [tz EXCEPT !.test[at - Len(tz.train)] = ex]

\* one iteration of the loop of _verify_split
VerifyPair ==
    /\ pc \in {"split", "agi", "gen"}
    /\ idx < Len(pairs)
    /\ LET arg == copy_deepcopy(pairs[idx + 1].input)
       IN  \E raw \in ProgramCall(program, arg.val, Len(calls) + 1) :
               LET ex == PairAfter(pairs[idx + 1], raw, arg)
                   res == _run_and_sanitize(CallResult(raw, arg))
                   acc == verify_pair(SplitResult, ex, idx + 1, res)
               IN  /\ pairs' = [pairs EXCEPT ![idx + 1] = ex]
                   /\ task_zero' = (IF task_id = 0 /\ pc \in {"agi", "gen"}
                                    THEN StoreBack(task_zero, pc, idx + 1, ex)
                                    ELSE task_zero)
                   /\ log' = Append(log, [arg |-> arg.val, verdict |-> Verdict(res, ex)])
                   /\ IF Caught(res) \/ res.t = "ok"
                      THEN /\ right' = acc.right
                           /\ wrong' = acc.wrong
                           /\ first_wrong_detail' = acc.first_wrong_detail
                           /\ err_tb' = acc.err_tb
                           /\ idx' = idx + 1
                           /\ UNCHANGED <<pc, escaped>>
                      ELSE /\ Escape(res.name)
                           /\ UNCHANGED <<idx, right, wrong, first_wrong_detail, err_tb>>
    /\ calls' = Append(calls, <<pc, idx + 1>>)
    /\ UNCHANGED <<scoreVars, runVars, inputVars, sys_modules, program, split_ret, agi_ret, gen_ret, ret, meta>>

\* the return of a direct call of _verify_split
ReturnSplit ==
    /\ pc = "split"
    /\ idx = Len(pairs)
    /\ split_ret' = Some(SplitResult)
    /\ pc' = "returned"
    /\ UNCHANGED <<scoreVars, runVars, task_zero, inputVars, sys_modules, program, splitVars, calls, log, agi_ret, gen_ret,
                   ret, meta, escaped>>

\* the solver files of the loads: absent, or 100 bytes of each load kind
LoadArtifacts ==
    {None} \cup {Some([bytes |-> 100, load |-> k, program |-> "deepcopy"]) : k \in LoadKinds}

\* one call of _import_solver(task_id) or of an _import_solver_from(src_dir,
\* task_id), in the interpreter of the calls before
ImportSolver ==
    /\ pc = "load"
    /\ \E ld \in Loaders, d \in SrcDirs, t \in TaskIds, art \in LoadArtifacts :
           LET imp == _import_solver(art)
           IN  /\ ld = "evaluator" => d = SUBMISSION_DIR
               /\ sys_modules' = (IF art = None THEN sys_modules
                                  ELSE Register(sys_modules, mod_name(ld, d, t), d, t))
               /\ program' = imp.program
               /\ escaped' = imp.name
    /\ UNCHANGED <<scoreVars, runVars, task_zero, inputVars, pc, splitVars, calls, log, split_ret, agi_ret,
                   gen_ret, ret, meta>>

\* a further call of _verify_split with the pair objects of the call before
CallAgain ==
    /\ pc = "returned"
    /\ Len(calls) < (MaxRuns - 1) * Len(pairs) + 1
    /\ EnterSplit("split", pairs)
    /\ UNCHANGED <<scoreVars, runVars, task_zero, inputVars, sys_modules, program, calls, log, split_ret, agi_ret, gen_ret,
                   ret, meta, escaped>>

\* _verify_split returns the ARC-AGI result; the caller enters the ARC-GEN split
ReturnAgi ==
    /\ pc = "agi"
    /\ idx = Len(pairs)
    /\ agi_ret' = Some(Kept(SplitResult))
    /\ EnterSplit("gen", gen_pairs)
    /\ UNCHANGED <<scoreVars, runVars, task_zero, inputVars, sys_modules, program, calls, log, split_ret, gen_ret, ret,
                   meta, escaped>>

FirstNonEmpty(a, b) == IF a # NoTrace THEN a ELSE b

\* _verify_split returns the ARC-GEN result; the caller scores and returns
ReturnGen ==
    /\ pc = "gen"
    /\ idx = Len(pairs)
    /\ gen_ret' = Some(Kept(SplitResult))
    /\ LET agi == agi_ret[1]
           gen == Kept(SplitResult)
           nbytes == get_file_bytes(artifact)
           score == score_for_length(nbytes, passed_all(agi, gen))
       IN  IF entry = "evaluate_task"
           THEN /\ ret' = Some([passed_all |-> passed_all(agi, gen), task_score |-> score,
                                file_len |-> nbytes])
                /\ meta' = meta
           ELSE /\ meta' = Some(Meta(TRUE, nbytes, score, passed_all(agi, gen),
                                     Counts(agi.right, agi.wrong),
                                     Counts(gen.right, gen.wrong),
                                     IF entry = "compare_solutions" THEN NoTrace
                                     ELSE FirstNonEmpty(agi.err_tb, gen.err_tb)))
                /\ ret' = ret
    /\ pc' = "done"
    /\ UNCHANGED <<scoreVars, runVars, task_zero, inputVars, sys_modules, program, splitVars, calls, log, split_ret,
                   agi_ret, escaped>>

\* ------------------------------------------------------------------------
\* eval_all.py and eval_decompressed.py: evaluate_all;
\* compare_solutions.py: evaluate_folders
\* ------------------------------------------------------------------------
Totals(p, s, f, m, sc, by) ==
    [present |-> p, solved |-> s, failed |-> f, missing |-> m, total_score |-> sc,
     total_bytes |-> by]

\* the entry of a task in the report: the record of each folder and, in a
\* comparison, _comparison
Row(tid, metas, cmp) == [task_id |-> tid, metas |-> metas, comparison |-> cmp]

\* an orchestrator is called for the task ids start..end, end = start - 1 being
\* an empty range and end = start - 2 an inverted one; evaluate_all reads one
\* folder, evaluate_folders a list of folders
InitRun ==
    /\ IdleScore
    /\ world = None
    /\ history = <<>>
    /\ entry \in Orchestrators
    /\ \E fs \in FolderLists \cup {<<SUBMISSION_DIR>>, <<DEFAULT_SRC>>}, s \in FirstIds,
          n \in (0 - 1)..MaxTasks :
          /\ entry = "eval_all" => fs = <<SUBMISSION_DIR>>
          /\ entry = "eval_decompressed" => fs = <<DEFAULT_SRC>>
          /\ entry = "compare_solutions" => fs \in FolderLists
          /\ run = [folders |-> fs, start |-> s, end |-> s + n - 1, tid |-> s, fi |-> 0,
                    rpc |-> "loop", row |-> <<>>, tasks |-> <<>>,
                    summary |-> [i \in 1..Len(fs) |-> Totals(0, 0, 0, 0, 0, 0)],
                    evals |-> <<>>, report |-> None]
    /\ task_id = 0
    /\ store = None
    /\ src_dir = SUBMISSION_DIR
    /\ artifact = None
    /\ sys_modules = {}
    /\ program = "none"
    /\ script = <<>>
    /\ pc = "idle"
    /\ pairs = <<>>
    /\ FreshEval

\* a call of _eval_one for task tid and the folder dir, which holds the solver
\* file art, storage holding st for the task
BeginEvalOne(tid, dir, st, art) ==
    /\ task_id' = tid
    /\ src_dir' = dir
    /\ store' = st
    /\ artifact' = art
    /\ pc' = "start"
    /\ program' = "none"
    /\ EnterSplit("start", <<>>)
    /\ calls' = <<>>
    /\ log' = <<>>
    /\ split_ret' = None
    /\ agi_ret' = None
    /\ gen_ret' = None
    /\ ret' = None
    /\ meta' = None
    /\ escaped' = ""

\* the loop of the orchestrator calls _eval_one for the next task and folder;
\* the folders of one task see the same task storage
CallEvalOne ==
    /\ run # None
    /\ run.rpc = "loop"
    /\ run.tid <= run.end
    /\ run.fi < Len(run.folders)
    /\ \E art \in RunArtifacts, st \in RunStores :
          /\ run.tid = 0 => st = None
          /\ run.fi > 0 => st = store
          /\ BeginEvalOne(run.tid, run.folders[run.fi + 1], st, art)
    /\ run' = [run EXCEPT !.rpc = "call", !.evals = Append(@, <<run.tid, run.fi + 1>>)]
    /\ UNCHANGED <<scoreVars, entry, script, sys_modules, task_zero, world, history>>

\* what the orchestrators leave alone once _eval_one has returned
afterCall ==
    <<scoreVars, inputVars, sys_modules, program, pc, splitVars, calls, log, split_ret,
      agi_ret, gen_ret, ret, meta, task_zero, world, history>>

\* evaluate_all: the counters after the record m of a task
TallyAll(tot, file_exists, m) ==
    Totals(tot.present + (IF file_exists THEN 1 ELSE 0),
           tot.solved + (IF m.passed THEN 1 ELSE 0),
           tot.failed + (IF ~m.passed /\ file_exists THEN 1 ELSE 0),
           tot.missing + (IF ~m.passed /\ ~file_exists THEN 1 ELSE 0),
           tot.total_score + m.score,
           tot.total_bytes + (IF file_exists THEN m.bytes ELSE 0))

\* evaluate_all: the rest of the loop body, after _eval_one returned
EvaluateAllCollect(e) ==
    /\ run # None
    /\ entry = e
    /\ run.rpc = "call"
    /\ pc = "done"
    /\ run' = [run EXCEPT !.rpc = "loop",
                          !.tid = @ + 1,
                          !.tasks = Append(@, Row(run.tid, <<meta[1]>>, None)),
                          !.summary = <<TallyAll(run.summary[1], artifact # None, meta[1])>>]
    /\ UNCHANGED <<afterCall, escaped>>

EvalAllCollect == EvaluateAllCollect("eval_all")

EvalDecompressedCollect == EvaluateAllCollect("eval_decompressed")

\* the counters of a folder with a task counted as missing never
TallyFolder_nomissing(tot, m) ==
    Totals(tot.present + (IF m.exists THEN 1 ELSE 0),
           tot.solved + (IF m.passed THEN 1 ELSE 0),
           tot.failed + (IF ~m.passed THEN 1 ELSE 0),
           tot.missing,
           tot.total_score + m.score,
           tot.total_bytes + (IF m.exists THEN m.bytes ELSE 0))

\* evaluate_folders: the counters of a folder after the record m of a task
TallyFolder(tot, m) ==
    Totals(tot.present + (IF m.exists THEN 1 ELSE 0),
           tot.solved + (IF m.passed THEN 1 ELSE 0),
           tot.failed + (IF ~m.passed /\ m.exists THEN 1 ELSE 0),
           tot.missing + (IF ~m.exists THEN 1 ELSE 0),
           tot.total_score + m.score,
           tot.total_bytes + (IF m.exists THEN m.bytes ELSE 0))

\* evaluate_folders: the rest of the body of the loop over the folders
EvaluateFoldersCollect ==
    /\ run # None
    /\ entry = "compare_solutions"
    /\ run.rpc = "call"
    /\ pc = "done"
    /\ run' = [run EXCEPT !.rpc = "loop",
                          !.fi = @ + 1,
                          !.row = Append(@, meta[1]),
                          !.summary[run.fi + 1] = TallyFolder(@, meta[1])]
    /\ UNCHANGED <<afterCall, escaped>>

RECURSIVE MaxSeq(_)
MaxSeq(q) ==
    IF Len(q) = 1 THEN q[1]
    ELSE LET rest == MaxSeq(Tail(q)) IN IF q[1] >= rest THEN q[1] ELSE rest

\* max(scores.values()) if scores else 0.0
best_score(scores) == IF scores = <<>> THEN 0 ELSE MaxSeq(scores)

\* the first of the best folders only
best_folders_first(folders, scores, best) ==
    LET at == SelectSeq([i \in 1..Len(folders) |-> i], LAMBDA i : scores[i] = best)
    IN  IF at = <<>> THEN <<>> ELSE <<folders[at[1]]>>

\* [f for f, sc in scores.items() if sc == best_score]
best_folders(folders, scores, best) ==
    LET at == SelectSeq([i \in 1..Len(folders) |-> i], LAMBDA i : scores[i] = best)
    IN  [k \in 1..Len(at) |-> folders[at[k]]]

\* {f: best_score - sc}, by position of the folder
score_debt_by_folder(scores, best) == [i \in 1..Len(scores) |-> best - scores[i]]

_comparison(folders, scores) ==
    [best_score |-> best_score(scores),
     best_folders |-> best_folders(folders, scores, best_score(scores)),
     score_debt_by_folder |-> score_debt_by_folder(scores, best_score(scores))]

\* evaluate_folders: the per-task deltas, after the loop over the folders
EvaluateFoldersCompare ==
    /\ run # None
    /\ entry = "compare_solutions"
    /\ run.rpc = "loop"
    /\ run.tid <= run.end
    /\ run.fi = Len(run.folders)
    /\ LET scores == [i \in 1..Len(run.folders) |-> run.row[i].score]
       IN  run' = [run EXCEPT !.tid = @ + 1,
                              !.fi = 0,
                              !.row = <<>>,
                              !.tasks = Append(@, Row(run.tid, run.row,
                                                      Some(_comparison(run.folders, scores))))]
    /\ UNCHANGED <<afterCall, escaped>>

\* an exception left _eval_one: the orchestrators have no handler around the
\* call, and it leaves them too
Abort ==
    /\ run # None
    /\ run.rpc = "call"
    /\ pc = "raised"
    /\ run' = [run EXCEPT !.rpc = "raised"]
    /\ UNCHANGED <<afterCall, escaped>>

\* evaluate_all: the task ids of the records with exists false
missing_tasks(results) ==
    LET kept == SelectSeq(results, LAMBDA r : ~r.metas[1].exists)
    IN  [k \in 1..Len(kept) |-> kept[k].task_id]

\* evaluate_all: the task ids of the records with exists true and passed false
failed_tasks(results) ==
    LET kept == SelectSeq(results, LAMBDA r : r.metas[1].exists /\ ~r.metas[1].passed)
    IN  [k \in 1..Len(kept) |-> kept[k].task_id]

\* evaluate_all: the failed and missing sections and the summary; the average
\* score divides by the number of tasks
EvaluateAllFinish(e) ==
    /\ run # None
    /\ entry = e
    /\ run.rpc = "loop"
    /\ run.tid > run.end
    /\ LET total == run.end - run.start + 1
           results == run.tasks
       IN  IF total = 0
           THEN /\ run' = [run EXCEPT !.rpc = "raised"]
                /\ escaped' = "ZeroDivisionError"
           ELSE /\ run' = [run EXCEPT !.rpc = "done",
                                      !.report = Some([total_tasks |-> total,
                                                       failed_tasks |-> failed_tasks(results),
                                                       missing_tasks |-> missing_tasks(results)])]
                /\ UNCHANGED escaped
    /\ UNCHANGED afterCall

EvalAllFinish == EvaluateAllFinish("eval_all")

EvalDecompressedFinish == EvaluateAllFinish("eval_decompressed")

\* a tally in which the first of several best folders wins the task
RECURSIVE wins_first(_, _, _)
wins_first(rows, folders, acc) ==
    IF rows = <<>> THEN acc
    ELSE LET bests == Head(rows).comparison[1].best_folders
         IN  wins_first(Tail(rows), folders,
                 IF Len(bests) >= 1
                 THEN [acc EXCEPT !.wins = [i \in DOMAIN @ |->
                                               @[i] + (IF folders[i] = bests[1] THEN 1 ELSE 0)]]
                 ELSE [acc EXCEPT !.ties = @ + 1])

\* evaluate_folders: the per-task wins tally
RECURSIVE wins(_, _, _)
wins(rows, folders, acc) ==
    IF rows = <<>> THEN acc
    ELSE LET bests == Head(rows).comparison[1].best_folders
         IN  wins(Tail(rows), folders,
                 IF Len(bests) = 1
                 THEN [acc EXCEPT !.wins = [i \in DOMAIN @ |->
                                               @[i] + (IF folders[i] = bests[1] THEN 1 ELSE 0)]]
                 ELSE [acc EXCEPT !.ties = @ + 1])

\* a score debt that keeps the debt of the last task only
RECURSIVE score_debt_last(_, _)
score_debt_last(rows, acc) ==
    IF rows = <<>> THEN acc
    ELSE score_debt_last(Tail(rows), Head(rows).comparison[1].score_debt_by_folder)

\* evaluate_folders: the score debt of each folder, summed over the tasks
RECURSIVE score_debt(_, _)
score_debt(rows, acc) ==
    IF rows = <<>> THEN acc
    ELSE score_debt(Tail(rows),
             [i \in DOMAIN acc |-> acc[i] + Head(rows).comparison[1].score_debt_by_folder[i]])

\* sorted(q, key=lambda x: x.key, reverse=True), which keeps the order of equal
\* keys
RECURSIVE SortedDesc(_)
SortedDesc(q) ==
    IF q = <<>> THEN <<>>
    ELSE LET rest == SortedDesc(Tail(q))
             before == SelectSeq(rest, LAMBDA x : x.key > Head(q).key)
             after == SelectSeq(rest, LAMBDA x : x.key <= Head(q).key)
         IN  before \o <<Head(q)>> \o after

\* evaluate_folders: the insights, after the last task
EvaluateFoldersFinish ==
    /\ run # None
    /\ entry = "compare_solutions"
    /\ run.rpc = "loop"
    /\ run.tid > run.end
    /\ LET folders == run.folders
           zero == [i \in 1..Len(folders) |-> 0]
           tally == wins(run.tasks, folders, [wins |-> zero, ties |-> 0])
           gaps == [k \in 1..Len(run.tasks) |->
                       LET sc == [i \in 1..Len(folders) |-> run.tasks[k].metas[i].score]
                       IN  [task_id |-> run.tasks[k].task_id,
                            key |-> IF sc = <<>> THEN 0
                                    ELSE MaxSeq(sc) + MaxSeq([i \in DOMAIN sc |-> 0 - sc[i]])]]
       IN  run' = [run EXCEPT
                      !.rpc = "done",
                      !.report =
                          Some([best_overall_by_total_score |->
                                    SortedDesc([i \in 1..Len(folders) |->
                                                   [folder |-> folders[i],
                                                    key |-> run.summary[i].total_score]]),
                                wins_by_folder |-> tally.wins,
                                ties_count |-> tally.ties,
                                score_debt_by_folder |-> score_debt(run.tasks, zero),
                                largest_score_gaps |->
                                    SortedDesc(SelectSeq(gaps, LAMBDA g : folders # <<>>))])]
    /\ UNCHANGED <<afterCall, escaped>>

NextOrchestrator ==
    \/ CallEvalOne
    \/ StartEvalOne
    \/ StartEvalOneDecompressed
    \/ StartEvalOneCompare
    \/ VerifyPair
    \/ ReturnAgi
    \/ ReturnGen
    \/ EvalAllCollect
    \/ EvalDecompressedCollect
    \/ EvaluateFoldersCollect
    \/ EvaluateFoldersCompare
    \/ Abort
    \/ EvalAllFinish
    \/ EvalDecompressedFinish
    \/ EvaluateFoldersFinish

\* ------------------------------------------------------------------------
\* _eval_one called again and again in one interpreter, on files and task data
\* that do not change
\* ------------------------------------------------------------------------
EvalKey(e, dir, tid) == [entry |-> e, dir |-> dir, tid |-> tid]

\* the evaluations that are made: two folders of the same base name, the
\* built-in task and a stored one, and the submission folder of eval_all
EvalKeys ==
    {EvalKey("compare_solutions", FolderA, 0), EvalKey("compare_solutions", FolderA, 1),
     EvalKey("compare_solutions", FolderB, 1), EvalKey("eval_all", SUBMISSION_DIR, 0)}

\* a solver file of these evaluations: absent, the identity, or a solver that
\* returns a copy of its input and then writes into its argument
FixedArtifacts ==
    {None} \cup {Some([bytes |-> 100, load |-> "ok", program |-> prog]) :
                    prog \in {"deepcopy", "scribbler"}}

FileOf(k) == <<k.dir, k.tid>>

InitTwice ==
    /\ IdleScore
    /\ run = None
    /\ world \in [files : [{FileOf(k) : k \in EvalKeys} -> FixedArtifacts],
                  data : RunStores \ {None}]
    /\ history = <<>>
    /\ entry = "eval_all"
    /\ task_id = 0
    /\ store = None
    /\ src_dir = SUBMISSION_DIR
    /\ artifact = None
    /\ sys_modules = {}
    /\ program = "none"
    /\ script = <<>>
    /\ pc = "idle"
    /\ pairs = <<>>
    /\ FreshEval

\* _eval_one is called for a folder and a task, and finds the files and the
\* task data as they are
EvalOneCall ==
    /\ pc = "idle"
    /\ Len(history) < MaxEvals
    /\ \E k \in EvalKeys :
          /\ entry' = k.entry
          /\ BeginEvalOne(k.tid, k.dir, IF k.tid = 0 THEN None ELSE world.data,
                          world.files[FileOf(k)])
    /\ UNCHANGED <<scoreVars, script, sys_modules, task_zero, runVars>>

\* _eval_one returns its record
EvalOneReturn ==
    /\ world # None
    /\ pc = "done"
    /\ pc' = "idle"
    /\ history' = Append(history, [key |-> EvalKey(entry, src_dir, task_id),
                                   passed |-> meta[1].passed,
                                   bytes |-> meta[1].bytes,
                                   score |-> meta[1].score])
    /\ UNCHANGED <<scoreVars, inputVars, sys_modules, program, splitVars, calls, log,
                   split_ret, agi_ret, gen_ret, ret, meta, escaped, task_zero, run, world>>

NextTwice ==
    \/ EvalOneCall
    \/ StartEvalOne
    \/ StartEvalOneCompare
    \/ VerifyPair
    \/ ReturnAgi
    \/ ReturnGen
    \/ EvalOneReturn

Next ==
    \/ StartEvaluateTask
    \/ StartEvalOne
    \/ StartEvalOneDecompressed
    \/ StartEvalOneCompare
    \/ VerifyPair
    \/ ReturnAgi
    \/ ReturnGen

NextVerify ==
    \/ VerifyPair
    \/ ReturnSplit

NextRepeat ==
    \/ VerifyPair
    \/ ReturnSplit
    \/ CallAgain

NextLoad == ImportSolver

NextScore == ScoreCalls

Spec == Init /\ [][Next]_vars

SpecVerify == InitVerify /\ [][NextVerify]_vars

SpecRepeat == InitRepeat /\ [][NextRepeat]_vars

SpecLoad == InitLoad /\ [][NextLoad]_vars

SpecScore == InitScore /\ [][NextScore]_vars

SpecRun == InitRun /\ [][NextOrchestrator]_vars

SpecTwice == InitTwice /\ [][NextTwice]_vars

\* ========================================================================
\* Properties
\* ========================================================================
Scored == sc_out # None

S1 == sc_out[1].s1

S2 == sc_out[1].s2

MaxOf(a, b) == IF a >= b THEN a ELSE b

\* C1: score_for_length(byte_length, passed=False) is exactly 0.001 (1 in
\* thousandths) for every integer byte_length, 0, negative and above 2500
\* included.
C1_FailedScoreIsFloor ==
    Scored => /\ (~sc_in.p1 => S1 = 1)
              /\ (~sc_in.p2 => S2 = 1)

C1_Witness ==
    /\ Scored
    /\ ~sc_in.p1 /\ sc_in.b1 < 0 /\ S1 = 1
    /\ ~sc_in.p2 /\ sc_in.b2 > 2500 /\ S2 = 1

\* C2: score_for_length(byte_length, passed=True) is max(1, 2500 - byte_length):
\* 100 gives 2400.0, 3000 gives 1.0, and 2498, 2499, 2500 give 2, 1, 1.
C2_PassedScoreFormula ==
    (Scored /\ sc_in.p1) =>
        /\ S1 = MaxOf(1, 2500 - sc_in.b1) * 1000
        /\ (sc_in.b1 = 100 => S1 = 2400000)
        /\ (sc_in.b1 = 3000 => S1 = 1000)
        /\ (sc_in.b1 = 2498 => S1 = 2000)
        /\ (sc_in.b1 = 2499 => S1 = 1000)
        /\ (sc_in.b1 = 2500 => S1 = 1000)

C2_Witness == Scored /\ sc_in.p1 /\ sc_in.b1 = 2500 /\ S1 = 1000

\* C3: a passing score is strictly higher than any failing score, whatever the
\* two byte lengths, and is never zero or negative.
C3_PassBeatsFail ==
    (Scored /\ sc_in.p1 /\ ~sc_in.p2) => (S1 > S2 /\ S1 > 0)

C3_Witness == Scored /\ sc_in.p1 /\ ~sc_in.p2 /\ sc_in.b1 = 3000 /\ sc_in.b2 = 0 /\ S1 > S2

\* C4 as stated: among passing solutions, b1 < b2 gives a strictly higher
\* score for b1.
C4_StrictlyDecreasing ==
    (Scored /\ sc_in.p1 /\ sc_in.p2 /\ sc_in.b1 < sc_in.b2) => S1 > S2

\* C4 as amended: among passing solutions, b1 < b2 gives a score for b1 that is
\* never lower, and strictly higher when b1 is at most 2498 bytes (above the
\* floor of 1).
C4_DecreasingToTheFloor ==
    (Scored /\ sc_in.p1 /\ sc_in.p2 /\ sc_in.b1 < sc_in.b2) =>
        /\ S1 >= S2
        /\ (sc_in.b1 <= 2498 => S1 > S2)

C4_Witness ==
    /\ Scored /\ sc_in.p1 /\ sc_in.p2
    /\ sc_in.b1 = 2498 /\ sc_in.b2 = 2499 /\ S1 > S2

Over == pc \in {"returned", "raised"}

Returned == pc = "returned"

\* C5 as stated: _verify_split invokes the solver on every pair exactly once,
\* in the order of the pairs, and once the call is over, by return or by an
\* exception, every pair has been invoked: no fault of the solver aborts it.
C5_EveryPairInvokedOnce ==
    /\ Len(calls) <= Len(pairs)
    /\ \A j \in 1..Len(calls) : calls[j] = <<"split", j>>
    /\ (Over => Len(calls) = Len(pairs))

AlwaysRaises == \A j \in 1..Len(script) : script[j].t # "ret"

IdentityRun ==
    \A j \in 1..Len(pairs) : /\ pairs[j].input = pairs[j].output
                             /\ script[j] = Returns(pairs[j].input)

\* C7: for pairs with input == output and a solver that returns a deep copy of
\* its input, _verify_split returns pass_count == len(pairs), fail_count == 0,
\* no first failure and an empty trace.
C7_IdentityPassesAll ==
    (Returned /\ IdentityRun) => split_ret[1] = Locals(Len(pairs), 0, None, NoTrace)

C7_Witness ==
    /\ Returned
    /\ pairs = <<Pair(G12, G12), Pair(G1_2, G1_2)>>
    /\ IdentityRun
    /\ split_ret[1].right = 2

NoCallIn(split) == \A j \in 1..Len(calls) : calls[j][1] # split

AllSplitsEmpty == agi_pairs = <<>> /\ gen_pairs = <<>>

\* C8: for an empty pair sequence _verify_split returns (0, 0, None, "") and
\* does not invoke the solver; a task whose splits are all empty and whose
\* solver loads is recorded as passed with score max(1, 2500 - bytes).
C8_EmptySplitSatisfied ==
    /\ (pc \in {"agi", "gen"} /\ pairs = <<>>) =>
           /\ SplitResult = Locals(0, 0, None, NoTrace)
           /\ NoCallIn(pc)
    /\ (pc = "done" /\ program # "none" /\ AllSplitsEmpty) =>
           /\ calls = <<>>
           /\ entry = "evaluate_task" =>
                  /\ ret[1].passed_all
                  /\ ret[1].task_score = MaxOf(1, 2500 - artifact[1].bytes) * 1000
           /\ entry = "eval_all" =>
                  /\ meta[1].passed
                  /\ meta[1].score = MaxOf(1, 2500 - artifact[1].bytes) * 1000

C8_Witness ==
    /\ pc = "done"
    /\ entry = "eval_all"
    /\ task_id = 1
    /\ program = "raiser"
    /\ AllSplitsEmpty
    /\ meta[1].passed
    /\ meta[1].score = 2400000

NextPair == pairs[idx + 1]

NextRun == _run_and_sanitize(script[idx + 1])

InLoop == pc = "split" /\ idx < Len(pairs)

KeepFirst(detail) == IF first_wrong_detail = None THEN Some(detail) ELSE first_wrong_detail

\* C9: an output that passes sanitization and differs in shape from the
\* expected grid is Incorrect and no error: fail_count goes up by one, the
\* diagnostic (if this is the first failure) holds the parsed output as actual,
\* and the trace is left as it was.
C9_ShapeMismatchIsIncorrect ==
    [][(/\ InLoop
        /\ NextRun.t = "ok"
        /\ np_shape(NextRun.arr) # np_shape(NextPair.output))
       => /\ pc' = "split"
          /\ idx' = idx + 1
          /\ right' = right
          /\ wrong' = wrong + 1
          /\ first_wrong_detail' = KeepFirst(Detail(NextPair, Some(NextRun.arr)))
          /\ err_tb' = err_tb]_vars

C9_Witness ==
    /\ Returned
    /\ pairs # <<>>
    /\ script[1] = Returns(G12)
    /\ pairs[1].output = G1_2
    /\ split_ret[1].first_wrong_detail = Some(Detail(pairs[1], Some(G12)))
    /\ split_ret[1].err_tb = NoTrace
    /\ split_ret[1].wrong >= 1

AllowedChars == {"0", "1", "2", "3", "4", "5", "6", "7", "8", "9", ",", "[", "]", " ", "."}

HasOtherChar(text) == \E j \in 1..Len(text) : text[j] \notin AllowedChars

\* the pair is handled as an execution error: counted as a fail, actual null,
\* the trace recorded, nothing propagated
ErrorStep ==
    /\ pc' = "split"
    /\ idx' = idx + 1
    /\ right' = right
    /\ wrong' = wrong + 1
    /\ first_wrong_detail' = KeepFirst(Detail(NextPair, None))
    /\ err_tb' = (IF err_tb = NoTrace THEN Traceback("ValueError", idx + 1) ELSE err_tb)

ReturnsText == script[idx + 1].t = "ret" /\ Serializable(script[idx + 1].val)

\* C10 as stated: if the JSON text of the return value holds a character other
\* than a digit, comma, square bracket, whitespace or period, the pair is an
\* execution error.
C10_OtherCharIsError ==
    [][(InLoop /\ ReturnsText /\ HasOtherChar(json_dumps(script[idx + 1].val)))
       => ErrorStep]_vars

\* C10 as amended: if the JSON text of the return value, after its substrings
\* true and false are replaced by 1 and 0, holds a character other than a
\* digit, comma, square bracket, whitespace or period, the pair is an execution
\* error: no comparison, fail_count up by one, actual null, the trace recorded,
\* nothing propagated.
C10_OtherCharAfterBoolsIsError ==
    [][(InLoop /\ ReturnsText /\ HasOtherChar(Dumped(script[idx + 1].val)))
       => ErrorStep]_vars

C10_Witness ==
    /\ Returned
    /\ pairs # <<>>
    /\ script[1] = Returns(GStr)
    /\ split_ret[1].first_wrong_detail = Some(Detail(pairs[1], None))
    /\ split_ret[1].err_tb = Traceback("ValueError", 1)

IsCell(v) == IsNumber(v) /\ v.n >= 0

\* a list of rows, each a list of non-negative numbers or booleans
IsCellGrid(v) ==
    /\ v.k = "list"
    /\ \A i \in 1..Len(v.s) : /\ v.s[i].k = "list"
                              /\ \A j \in 1..Len(v.s[i].s) : IsCell(v.s[i].s[j])

\* same number of rows, same number of columns in every corresponding row, and
\* every corresponding cell numerically equal, True being 1 and False being 0
SameRowsColsCells(u, w) ==
    /\ IsCellGrid(u)
    /\ Len(u.s) = Len(w.s)
    /\ \A i \in 1..Len(u.s) :
           /\ Len(u.s[i].s) = Len(w.s[i].s)
           /\ \A j \in 1..Len(u.s[i].s) : Tenths(u.s[i].s[j]) = Tenths(w.s[i].s[j])

CountedCorrect == right' = right + 1 /\ wrong' = wrong /\ idx' = idx + 1

CountedIncorrect == right' = right /\ wrong' = wrong + 1 /\ idx' = idx + 1 /\ err_tb' = err_tb

\* C11: a pair whose output passes sanitization is counted Correct if and only
\* if the re-parsed output has the rows, the columns of every row and the
\* cells of the expected grid, and Incorrect otherwise; a returned grid of
\* non-negative numbers and booleans always passes sanitization and is Correct
\* exactly when it equals the expected grid with True as 1 and False as 0.
C11_CorrectIffSameGrid ==
    [][(InLoop /\ script[idx + 1].t = "ret")
       => /\ NextRun.t = "ok" =>
                 IF SameRowsColsCells(NextRun.arr, NextPair.output)
                 THEN CountedCorrect ELSE CountedIncorrect
          /\ IsCellGrid(script[idx + 1].val) =>
                 /\ NextRun.t = "ok"
                 /\ IF SameRowsColsCells(script[idx + 1].val, NextPair.output)
                    THEN CountedCorrect ELSE CountedIncorrect]_vars

C11_Witness ==
    /\ Returned
    /\ Len(pairs) = 2
    /\ script = <<Returns(GBool), Returns(GRagged)>>
    /\ pairs[1].output = G12
    /\ pairs[2].output = G1_2
    /\ split_ret[1].right = 1
    /\ split_ret[1].wrong = 1
    /\ split_ret[1].err_tb = NoTrace

\* C12: the solver is invoked on a deep copy: no step of a verification, by a
\* solver that writes into its argument included, changes a stored example
\* pair (the pair of the built-in task 0 included), and every invocation, a
\* later one on the same example included, receives the stored input as it
\* was loaded.
C12_StoredPairsUntouched ==
    /\ [][pairs' = pairs]_vars
    /\ [](\A j \in 1..Len(log) : log[j].arg = pairs[calls[j][2]].input)

C12_Witness ==
    /\ pc = "returned"
    /\ program = "mutator"
    /\ pairs = _TASK_ZERO.train
    /\ Len(log) = 2
    /\ log[1].arg = G0
    /\ log[2].arg = G0
    /\ log[1].verdict \in {"incorrect", "error"}

RunOf(j) == _run_and_sanitize(script[j])

\* the pairs processed so far that were incorrect or errored, and those that errored
FailedSoFar == {j \in 1..idx : log[j].verdict # "correct"}

ErroredSoFar == {j \in 1..idx : log[j].verdict = "error"}

Least(S) == CHOOSE j \in S : \A k \in S : j <= k

SnapshotOf(j) ==
    [input |-> pairs[j].input, expected |-> pairs[j].output,
     actual |-> IF RunOf(j).t = "ok" THEN Some(RunOf(j).arr) ELSE None]

\* C13: at every point of the loop of _verify_split the diagnostic snapshot is
\* that of the first pair, in order, that was incorrect or errored (none if
\* there is no such pair) and the trace is that of the first pair that errored
\* (empty if none), so a later pair never replaces either; fail_count is the
\* number of failed pairs and pass_count the number of the others, whatever the
\* two values are.
C13_FirstFailureRetained ==
    (pc \in {"split", "returned"}) =>
        /\ first_wrong_detail =
               (IF FailedSoFar = {} THEN None ELSE Some(SnapshotOf(Least(FailedSoFar))))
        /\ err_tb =
               (IF ErroredSoFar = {} THEN NoTrace
                ELSE Traceback(RunOf(Least(ErroredSoFar)).name, Least(ErroredSoFar)))
        /\ wrong = Cardinality(FailedSoFar)
        /\ right = idx - Cardinality(FailedSoFar)
        /\ (Returned => split_ret[1] = Locals(right, wrong, first_wrong_detail, err_tb))

C13_Witness ==
    /\ Returned
    /\ Len(pairs) = 2
    /\ pairs[1].output = G12
    /\ script = <<Returns(G1_2), RaisesException>>
    /\ split_ret[1].first_wrong_detail = Some(Detail(pairs[1], Some(G1_2)))
    /\ split_ret[1].err_tb = Traceback("SolverError", 2)
    /\ split_ret[1].wrong = 2

\* C14 as stated: nothing raised during a solver invocation leaves
\* _verify_split: whatever the solver raises, no exception escapes the call and
\* the pair is counted as a fail.
C14_NothingEscapes ==
    /\ escaped = ""
    /\ \A j \in 1..Len(log) : log[j].verdict # "escaped"
    /\ (Returned => \A j \in 1..Len(pairs) :
                        script[j].t # "ret" => log[j].verdict = "error")

\* C19 as stated: the name under which a solver is registered is unique per
\* (source_dir, task_id): no load binds a name that a load from another folder,
\* or of another task, has bound before.
C19_IdentityUniquePerFolderAndTask ==
    [][\A m \in sys_modules : \A n \in sys_modules' :
          n.name = m.name => (n.dir = m.dir /\ n.tid = m.tid)]_vars

\* the entry point returned after verifying both splits
Ran == pc = "done" /\ program # "none"

Finished == pc \in {"done", "raised"}

TaskDataPresent == load_task(task_id, store) # None

PassedOut == IF entry = "evaluate_task" THEN ret[1].passed_all ELSE meta[1].passed

ScoreOut == IF entry = "evaluate_task" THEN ret[1].task_score ELSE meta[1].score

\* every pair of the train and test split and of the arc-gen split was Correct
AllCorrect ==
    /\ Len(log) = Len(agi_pairs) + Len(gen_pairs)
    /\ \A j \in 1..Len(log) : log[j].verdict = "correct"

FailedIn(split) == \E j \in 1..Len(log) : calls[j][1] = split /\ log[j].verdict # "correct"

\* C15: when an entry point returns after verification, passed_all is true if
\* and only if every pair of every split was Correct; one incorrect or erroring
\* pair in the ARC-AGI split or in the ARC-GEN split makes it false and the
\* score 0.001.
C15_PassedIffEveryPairCorrect ==
    Ran => /\ PassedOut <=> AllCorrect
           /\ (FailedIn("agi") \/ FailedIn("gen")) => (~PassedOut /\ ScoreOut = 1)

C15_Witness ==
    /\ Ran
    /\ entry = "compare_solutions"
    /\ Len(log) = 2
    /\ log[1].verdict = "correct"
    /\ calls[2][1] = "gen"
    /\ log[2].verdict = "error"
    /\ ~meta[1].passed
    /\ meta[1].score = 1

\* C16 as stated: every entry point, once it is over for a task whose data
\* exists and without an interpreter-exit fault, has yielded a score: 0.001 if
\* the solver file is missing, fails to load or did not pass every pair, and
\* max(1, 2500 - byte_length) otherwise.
C16_ScoreOnEveryEntryPoint ==
    (Finished /\ TaskDataPresent /\ escaped # "SystemExit") =>
        /\ ret # None \/ meta # None
        /\ ScoreOut = (IF program # "none" /\ AllCorrect
                       THEN MaxOf(1, 2500 - artifact[1].bytes) * 1000
                       ELSE 1)

Orchestrated == entry \in {"eval_all", "eval_decompressed", "compare_solutions"}

\* C17 as stated: for a task whose data exists and whose solver file is absent,
\* every orchestrator records exists=false, passed=false, score 0.001, pass
\* counts 0 and fail counts len(train)+len(test) and len(arc-gen).
C17_MissingArtifactRecord ==
    (Finished /\ Orchestrated /\ TaskDataPresent /\ artifact = None) =>
        /\ meta # None
        /\ ~meta[1].exists
        /\ ~meta[1].passed
        /\ meta[1].score = 1
        /\ meta[1].arc_agi = Counts(0, Len(agi_pairs))
        /\ meta[1].arc_gen = Counts(0, Len(gen_pairs))

Malformed == artifact # None /\ artifact[1].load \in {"no_p", "not_callable"}

\* C18 as stated: for a task whose data exists and whose solver file defines no
\* p, or a p that is not callable, every orchestrator records exists=true,
\* passed=false, score 0.001, an error text that is not empty, pass counts 0 and
\* fail counts equal to the numbers of example pairs.
C18_MalformedArtifactRecord ==
    (Finished /\ Orchestrated /\ TaskDataPresent /\ Malformed) =>
        /\ meta # None
        /\ meta[1].exists
        /\ ~meta[1].passed
        /\ meta[1].score = 1
        /\ meta[1].error # NoTrace
        /\ meta[1].arc_agi = Counts(0, Len(agi_pairs))
        /\ meta[1].arc_gen = Counts(0, Len(gen_pairs))

\* C20 as stated: when the task data of the task id is absent, _eval_one of
\* every orchestrator returns a record for the task, so that the loop over the
\* tasks and folders goes on: no FileNotFoundError of load_task leaves it.
C20_MissingTaskDataRecovered ==
    (Finished /\ Orchestrated /\ ~TaskDataPresent) =>
        /\ meta # None
        /\ escaped = ""

IdentitySolver ==
    artifact # None /\ artifact[1].load = "ok" /\ artifact[1].program = "deepcopy"

\* C22: task id 0 is the built-in task (one train pair [[0]] -> [[0]], no test
\* and no arc-gen pair) whatever storage holds, and every entry point that
\* evaluates it with a solver returning its input unchanged makes the one
\* invocation on [[0]] and yields passed_all = true and the score
\* max(1, 2500 - byte length of the artifact).
C22_TaskZeroBuiltIn ==
    task_id = 0 =>
        /\ load_task(task_id, store) =
               Some([train |-> <<[input |-> PyList(<<PyList(<<PyInt(0)>>)>>),
                                 output |-> PyList(<<PyList(<<PyInt(0)>>)>>)]>>,
                     test |-> <<>>, arcgen |-> <<>>])
        /\ (Finished /\ IdentitySolver) =>
               /\ pc = "done"
               /\ calls = <<<<"agi", 1>>>>
               /\ log[1].arg = PyList(<<PyList(<<PyInt(0)>>)>>)
               /\ PassedOut
               /\ ScoreOut = MaxOf(1, 2500 - artifact[1].bytes) * 1000

C22_Witness ==
    /\ pc = "done"
    /\ entry = "evaluate_task"
    /\ task_id = 0
    /\ store = None
    /\ IdentitySolver
    /\ artifact[1].bytes = 100
    /\ ret[1] = [passed_all |-> TRUE, task_score |-> 2400000, file_len |-> 100]

\* C25: at every step of _verify_split pass_count + fail_count is the number
\* of pairs processed so far (len(pairs) on return), the diagnostic snapshot is
\* None if and only if fail_count is 0, and a non-empty trace implies
\* fail_count >= 1 and a snapshot that is not None.
C25_SplitInvariants ==
    /\ right + wrong = idx
    /\ idx <= Len(pairs)
    /\ (first_wrong_detail = None) <=> (wrong = 0)
    /\ err_tb # NoTrace => (wrong >= 1 /\ first_wrong_detail # None)
    /\ Returned => /\ split_ret[1].right + split_ret[1].wrong = Len(pairs)
                   /\ (split_ret[1].first_wrong_detail = None) <=> (split_ret[1].wrong = 0)

C25_Witness ==
    /\ Returned
    /\ Len(pairs) = 2
    /\ script = <<Returns(pairs[1].output), RaisesException>>
    /\ split_ret[1].right = 1
    /\ split_ret[1].wrong = 1
    /\ split_ret[1].first_wrong_detail = Some(Detail(pairs[2], None))
    /\ split_ret[1].err_tb # NoTrace

\* C27: in every record that an _eval_one returns, passed = true implies
\* exists = true and fail counts of 0 in both splits, and the score is at least
\* 1 if and only if passed = true, and 0.001 otherwise.
C27_RecordInvariants ==
    meta # None =>
        /\ meta[1].passed => /\ meta[1].exists
                             /\ meta[1].arc_agi.fail = 0
                             /\ meta[1].arc_gen.fail = 0
        /\ (meta[1].score >= 1000) <=> meta[1].passed
        /\ ~meta[1].passed => meta[1].score = 1

C27_Witness ==
    /\ pc = "done"
    /\ entry = "eval_decompressed"
    /\ artifact # None
    /\ artifact[1].bytes = 3000
    /\ Len(log) = 2
    /\ meta[1].passed
    /\ meta[1].score = 1000
    /\ meta[1].arc_agi = Counts(1, 0)
    /\ meta[1].arc_gen = Counts(1, 0)

\* C24 as stated, per record: for every present artifact the record that an
\* orchestrator returns carries the raw byte length of the artifact file,
\* whether the solver passes, fails, or fails to load.
C24_BytesOfPresentArtifact ==
    (pc = "done" /\ Orchestrated /\ artifact # None) =>
        /\ meta # None
        /\ meta[1].exists
        /\ meta[1].bytes = get_file_bytes(artifact)

Range(q) == {q[i] : i \in DOMAIN q}

RECURSIVE SumSeq(_)
SumSeq(q) == IF q = <<>> THEN 0 ELSE Head(q) + SumSeq(Tail(q))

Comparing == entry = "compare_solutions"

\* the scores of the folders for the task of a row
Scores(row) == [i \in 1..Len(row.metas) |-> row.metas[i].score]

\* C23: for every task of a comparison best_score is the maximum of the scores
\* of the folders, best_folders lists exactly the folders whose score equals
\* it, each once, and the score debt of each folder is best_score minus its
\* score; scores 2400 and 0.001 give best_folders = [A], debt 0 for A and
\* 2399.999 for B.
C23_BestAndDebtPerTask ==
    Comparing =>
        \A k \in 1..Len(run.tasks) :
            LET row == run.tasks[k]
                cmp == row.comparison[1]
                fs == run.folders
            IN  /\ \A i \in DOMAIN fs : cmp.best_score >= row.metas[i].score
                /\ fs # <<>> => \E i \in DOMAIN fs : cmp.best_score = row.metas[i].score
                /\ \A i \in DOMAIN fs :
                       (fs[i] \in Range(cmp.best_folders)) <=> (row.metas[i].score = cmp.best_score)
                /\ Len(cmp.best_folders) = Cardinality(Range(cmp.best_folders))
                /\ \A i \in DOMAIN fs :
                       cmp.score_debt_by_folder[i] = cmp.best_score - row.metas[i].score
                /\ Scores(row) = <<2400000, 1>> =>
                       /\ cmp.best_folders = <<fs[1]>>
                       /\ cmp.score_debt_by_folder = <<0, 2399999>>

C23_Witness ==
    /\ Comparing
    /\ run.folders = <<FolderA, FolderB>>
    /\ Len(run.tasks) = 2
    /\ Scores(run.tasks[1]) = <<2400000, 1>>
    /\ run.tasks[1].comparison[1] =
           [best_score |-> 2400000, best_folders |-> <<FolderA>>,
            score_debt_by_folder |-> <<0, 2399999>>]
    /\ Scores(run.tasks[2]) = <<2400000, 2400000>>
    /\ run.tasks[2].comparison[1].best_folders = <<FolderA, FolderB>>

\* the records that the counters of folder i have seen
Seen(i) ==
    [k \in 1..Len(run.tasks) |-> run.tasks[k].metas[i]]
    \o (IF i <= Len(run.row) THEN <<run.row[i]>> ELSE <<>>)

HowMany(q, Test(_)) == Len(SelectSeq(q, Test))

\* after each task the counters put every processed task into exactly one of
\* solved, failed and missing
Classified(i) ==
    LET t == run.summary[i]
    IN  /\ t.present + t.missing = Len(Seen(i))
        /\ t.solved + t.failed = t.present
        /\ t.solved = HowMany(Seen(i), LAMBDA m : m.passed)
        /\ t.missing = HowMany(Seen(i), LAMBDA m : ~m.exists)
        /\ t.failed = HowMany(Seen(i), LAMBDA m : m.exists /\ ~m.passed)

Classes(i) == run.summary[i].solved + run.summary[i].failed + run.summary[i].missing

WonAlone(i) ==
    {k \in 1..Len(run.tasks) :
        \A j \in DOMAIN run.folders :
            j # i => run.tasks[k].metas[j].score < run.tasks[k].metas[i].score}

\* C28: in the report of evaluate_folders the wins of all folders plus
\* ties_count is the number of tasks of the range; a task is a win of a folder
\* only if that folder alone has the best score, and with two or more folders a
\* task on which every folder scores 0.001 is a tie.
C28_WinsPlusTies ==
    (Comparing /\ run.rpc = "done") =>
        LET rpt == run.report[1]
            fs == run.folders
        IN  /\ SumSeq(rpt.wins_by_folder) + rpt.ties_count = Len(run.tasks)
            /\ Len(run.tasks) = Cardinality(run.start..run.end)
            /\ \A i \in DOMAIN fs : rpt.wins_by_folder[i] = Cardinality(WonAlone(i))
            /\ rpt.ties_count =
                   Cardinality({k \in 1..Len(run.tasks) : \A i \in DOMAIN fs : k \notin WonAlone(i)})
            /\ Len(fs) >= 2 =>
                   \A k \in 1..Len(run.tasks) :
                       (\A i \in DOMAIN fs : run.tasks[k].metas[i].score = FailScore) =>
                           \A i \in DOMAIN fs : k \notin WonAlone(i)

C28_Witness ==
    /\ Comparing
    /\ run.rpc = "done"
    /\ Len(run.folders) = 2
    /\ Len(run.tasks) = 2
    /\ Scores(run.tasks[1]) = <<FailScore, FailScore>>
    /\ Scores(run.tasks[2]) = <<1000, 2400000>>
    /\ run.report[1].wins_by_folder = <<0, 1>>
    /\ run.report[1].ties_count = 1

C30_RunEndsWithFullReport ==
    run.start <= run.end =>
        /\ run.rpc # "raised"
        /\ run.rpc = "done" =>
               /\ Len(run.tasks) = run.end - run.start + 1
               /\ \A k \in 1..Len(run.tasks) : run.tasks[k].task_id = run.start + k - 1
               /\ Len(run.evals) = Len(run.tasks) * Len(run.folders)
               /\ \A a, b \in DOMAIN run.evals : run.evals[a] = run.evals[b] => a = b
               /\ \A i \in DOMAIN run.folders :
                      run.summary[i].total_score =
                          SumSeq([k \in 1..Len(run.tasks) |-> run.tasks[k].metas[i].score])

\* C21: two evaluations of the same folder and task, the solver file and the
\* task data being the same and the solver deterministic, give the same passed,
\* bytes and score, whatever was evaluated in between; each evaluation of a file
\* that is there loads it anew, binding its module name to that file and taking
\* the solver the file defines, and takes no result from an earlier evaluation.
C21_SameRecordOnRepeat ==
    /\ \A a, b \in DOMAIN history :
           history[a].key = history[b].key =>
               /\ history[a].passed = history[b].passed
               /\ history[a].bytes = history[b].bytes
               /\ history[a].score = history[b].score
    /\ (pc = "done" /\ artifact # None) =>
           /\ program = artifact[1].program
           /\ [name |-> mod_name(LoaderOf(entry), src_dir, task_id),
               dir |-> src_dir, tid |-> task_id] \in sys_modules
           /\ Len(calls) = Len(agi_pairs) + Len(gen_pairs)

C21_Witness ==
    /\ Len(history) = 3
    /\ history[1].key = EvalKey("compare_solutions", FolderA, 0)
    /\ history[2].key = EvalKey("eval_all", SUBMISSION_DIR, 0)
    /\ history[3].key = EvalKey("compare_solutions", FolderA, 0)
    /\ world.files[<<FolderA, 0>>] = Some([bytes |-> 100, load |-> "ok", program |-> "scribbler"])
    /\ world.files[<<SUBMISSION_DIR, 0>>] = None
    /\ history[1].passed
    /\ history[3] = history[1]
    /\ ~history[2].passed

====
